---- MODULE Spec2Model ----
(* A model of scripts/add-map.py: the add-map tool that inserts a map entry  *)
(* into a map group of a KeyValues file and subscribes a Workshop ID.        *)
(*                                                                           *)
(* Text is modelled as a sequence of characters.  The structural characters  *)
(* (tab, space, line feed, double quote, braces, slash) are single           *)
(* characters; a run of other characters (a word such as mapgroups or de_a)  *)
(* is one atomic character of the alphabet.  A file is a flat sequence of    *)
(* characters, the Document a sequence of lines, each line a sequence of     *)
(* characters that keeps its line terminator.  Line indices are the 0-based  *)
(* indices of the Python lists.                                              *)
EXTENDS Integers, Sequences, FiniteSets, TLC

VARIABLES gm, bak, sub, args, pc, lines, span, out, log, run, snap0, snap1

vars == <<gm, bak, sub, args, pc, lines, span, out, log, run, snap0, snap1>>

-----------------------------------------------------------------------------
(* Characters *)

TAB == "\t"
SP == " "
NL == "\n"
QUOTE == "\""
LBRACE == "{"
RBRACE == "}"
SLASH == "/"

Whitespace == {TAB, SP, NL}

-----------------------------------------------------------------------------
(* str methods used by the script *)

RECURSIVE lstrip(_)
lstrip(s) ==
  IF s # <<>> /\ Head(s) \in Whitespace THEN lstrip(Tail(s)) ELSE s

RECURSIVE rstrip(_)
rstrip(s) ==
  IF s # <<>> /\ s[Len(s)] \in Whitespace
    THEN rstrip(SubSeq(s, 1, Len(s) - 1))
    ELSE s

strip(s) == rstrip(lstrip(s))

startswith(s, p) == Len(s) >= Len(p) /\ SubSeq(s, 1, Len(p)) = p

contains(s, c) == \E n \in 1..Len(s) : s[n] = c

count(s, c) == Cardinality({n \in 1..Len(s) : s[n] = c})

Quoted(w) == <<QUOTE>> \o w \o <<QUOTE>>

RECURSIVE join(_)
join(ls) == IF ls = <<>> THEN <<>> ELSE Head(ls) \o join(Tail(ls))

(* str.splitlines(keepends=True): a line ends at every line terminator, and  *)
(* at the end of the text when the text does not end with one; each line     *)
(* runs from the end of the line before it and keeps its terminator.         *)
LineEnds(text) ==
  {n \in 1..Len(text) : text[n] = NL \/ n = Len(text)}

splitlines(text) ==
  LET ends == LineEnds(text)
      EndOf(k) == CHOOSE e \in ends : Cardinality({x \in ends : x <= e}) = k
      StartOf(k) == IF k = 1 THEN 1 ELSE EndOf(k - 1) + 1
  IN [k \in 1..Cardinality(ends) |-> SubSeq(text, StartOf(k), EndOf(k))]

(* lines[i] of a Python list *)
At(ls, i) == ls[i + 1]

(* list.insert(i, x) for 0 <= i <= len *)
ListInsert(ls, i, x) == SubSeq(ls, 1, i) \o <<x>> \o SubSeq(ls, i + 1, Len(ls))

-----------------------------------------------------------------------------
(* find_group_and_maps_block and infer_maps_indent *)

ErrNoSection == "Could not find a mapgroups section"
ErrNoSectionBrace == "Malformed mapgroups block"
ErrNoGroup == "Group not found in mapgroups"
ErrNoGroupBrace == "Malformed group"
ErrMalformedMaps == "Malformed maps block"
ErrNoMaps == "No maps block found in group"
ErrMissingFile == "Missing file"

Fail(e) == [ok |-> FALSE, err |-> e, group_start |-> -1, maps_start |-> -1,
            maps_end |-> -1, indent |-> <<>>]

LeadingWhitespace(l) == SubSeq(l, 1, Len(l) - Len(lstrip(l)))

FourTabs == <<TAB, TAB, TAB, TAB>>

(* the line decides the indentation: either return of the loop body *)
IndentLine(l) ==
  \/ (startswith(strip(l), <<QUOTE>>) /\ contains(strip(l), QUOTE)
        /\ contains(l, TAB))
     \/ contains(l, TAB)
  \/ startswith(strip(l), <<QUOTE>>) /\ ~contains(l, TAB)

RECURSIVE InferFrom(_, _, _)
InferFrom(ls, i, end_idx) ==
  IF i >= end_idx THEN FourTabs
  ELSE IF IndentLine(At(ls, i)) THEN LeadingWhitespace(At(ls, i))
  ELSE InferFrom(ls, i + 1, end_idx)

infer_maps_indent(ls, start_idx, end_idx) == InferFrom(ls, start_idx, end_idx)

(* 1) the first line whose left-stripped content starts with "mapgroups";    *)
(*    Len(ls) when there is none                                             *)
RECURSIVE FindMapgroups(_, _)
FindMapgroups(ls, i) ==
  IF i >= Len(ls) THEN Len(ls)
  ELSE IF startswith(lstrip(At(ls, i)), Quoted(<<"mapgroups">>)) THEN i
  ELSE FindMapgroups(ls, i + 1)

(* the first line from i on that holds an opening brace; Len(ls) if none *)
RECURSIVE ScanBrace(_, _)
ScanBrace(ls, i) ==
  IF i >= Len(ls) THEN Len(ls)
  ELSE IF contains(At(ls, i), LBRACE) THEN i
  ELSE ScanBrace(ls, i + 1)

BraceDelta(l) == count(l, LBRACE) - count(l, RBRACE)

(* 3) the group header line, -1 when the walk ends without a match *)
RECURSIVE FindGroup(_, _, _, _)
FindGroup(ls, i, brace_depth, group_name) ==
  IF i < Len(ls) /\ brace_depth > 0
    THEN IF startswith(strip(At(ls, i)), Quoted(<<group_name>>))
           THEN i
           ELSE FindGroup(ls, i + 1, brace_depth + BraceDelta(At(ls, i)),
                          group_name)
    ELSE -1

(* the matching closing brace of the maps block *)
RECURSIVE MatchMaps(_, _, _, _, _)
MatchMaps(ls, m, maps_brace_depth, maps_start_idx, group_start) ==
  IF m < Len(ls) /\ maps_brace_depth > 0
    THEN IF maps_brace_depth + BraceDelta(At(ls, m)) = 0
           THEN [ok |-> TRUE, err |-> "", group_start |-> group_start,
                 maps_start |-> maps_start_idx, maps_end |-> m,
                 indent |-> infer_maps_indent(ls, maps_start_idx, m)]
           ELSE MatchMaps(ls, m + 1, maps_brace_depth + BraceDelta(At(ls, m)),
                          maps_start_idx, group_start)
    ELSE Fail(ErrMalformedMaps)

(* 4b) walk the group's braces to the "maps" header *)
RECURSIVE WalkGroup(_, _, _, _)
WalkGroup(ls, j, group_brace_depth, group_start) ==
  IF j < Len(ls) /\ group_brace_depth > 0
    THEN IF startswith(strip(At(ls, j)), Quoted(<<"maps">>))
           THEN LET k == ScanBrace(ls, j)
                IN IF k >= Len(ls) THEN Fail(ErrMalformedMaps)
                   ELSE MatchMaps(ls, k + 1, 1, k + 1, group_start)
           ELSE WalkGroup(ls, j + 1, group_brace_depth + BraceDelta(At(ls, j)),
                          group_start)
    ELSE Fail(ErrNoMaps)

find_group_and_maps_block(ls, group_name) ==
  LET i1 == FindMapgroups(ls, 0)
      i2 == ScanBrace(ls, i1 + 1)
      group_start == FindGroup(ls, i2 + 1, 1, group_name)
      j == ScanBrace(ls, group_start)
  IN IF i1 >= Len(ls) THEN Fail(ErrNoSection)
     ELSE IF i2 >= Len(ls) THEN Fail(ErrNoSectionBrace)
     ELSE IF group_start = -1 THEN Fail(ErrNoGroup)
     ELSE IF j >= Len(ls) THEN Fail(ErrNoGroupBrace)
     ELSE WalkGroup(ls, j + 1, 1, group_start)

-----------------------------------------------------------------------------
(* current_maps_in_block, format_map_key, insert_map, add_workshop_id *)

(* stripped.split('"')[1] of a stripped line that starts with a quote: the   *)
(* text after the first quote up to the next quote, or to the end            *)
RECURSIVE UpToQuote(_)
UpToQuote(s) ==
  IF s = <<>> \/ Head(s) = QUOTE THEN <<>>
  ELSE <<Head(s)>> \o UpToQuote(Tail(s))

SplitQuote1(stripped) == UpToQuote(Tail(stripped))

RECURSIVE MapsFrom(_, _, _)
MapsFrom(ls, i, end_idx) ==
  IF i >= end_idx THEN <<>>
  ELSE LET stripped == strip(At(ls, i))
       IN (IF startswith(stripped, <<QUOTE>>) /\ contains(stripped, QUOTE)
             THEN <<SplitQuote1(stripped)>>
             ELSE <<>>) \o MapsFrom(ls, i + 1, end_idx)

(* current_maps_in_block with the scan started one line late *)
current_maps_skip_first(ls, start_idx, end_idx) ==
  MapsFrom(ls, start_idx + 1, end_idx)

current_maps_in_block(ls, start_idx, end_idx) ==
  MapsFrom(ls, start_idx, end_idx)

InList(x, l) == \E n \in 1..Len(l) : l[n] = x

(* format_map_key with the workshop prefix left out *)
format_map_key_bare(map_name, workshop_id) == <<map_name>>

(* workshop_id "" stands for an id that is not given (None) *)
format_map_key(map_name, workshop_id) ==
  IF workshop_id # ""
    THEN <<"workshop", SLASH, workshop_id, SLASH, map_name>>
    ELSE <<map_name>>

NewLine(indent, map_key) ==
  indent \o Quoted(map_key) \o <<TAB, TAB, QUOTE, QUOTE, NL>>

insert_map(ls, start_idx, end_idx, indent, map_key, position) ==
  IF position = "start"
    THEN ListInsert(ls, start_idx, NewLine(indent, map_key))
    ELSE ListInsert(ls, end_idx, NewLine(indent, map_key))

(* files: exists says whether the path is there, content is its text *)
Absent == [exists |-> FALSE, content |-> <<>>]
File(text) == [exists |-> TRUE, content |-> text]

(* set(line.strip() for line in text.splitlines() if line.strip()) *)
Existing(f) ==
  IF f.exists
    THEN {strip(l) : l \in {At(splitlines(f.content), n) :
                              n \in 0..(Len(splitlines(f.content)) - 1)}}
           \ {<<>>}
    ELSE {}

(* add_workshop_id with the dry_run test left out *)
add_workshop_id_always_writes(f, workshop_id, dry_run) ==
  IF <<workshop_id>> \in Existing(f)
    THEN [added |-> FALSE, file |-> f]
    ELSE [added |-> TRUE, file |-> File(f.content \o <<workshop_id, NL>>)]

(* add_workshop_id: the value returned and the file it leaves *)
add_workshop_id(f, workshop_id, dry_run) ==
  IF <<workshop_id>> \in Existing(f)
    THEN [added |-> FALSE, file |-> f]
    ELSE [added |-> TRUE,
          file |-> IF dry_run THEN f
                   ELSE File(f.content \o <<workshop_id, NL>>)]

backup_file(f) == File(f.content)

write_lines(ls) == File(join(ls))

read_lines(f) == splitlines(f.content)

(* the existence checks with the non-custom branch left out *)
FilesPresentCustomOnly(custom, g, s) ==
  IF custom THEN g.exists /\ s.exists ELSE TRUE

(* main's existence checks: TRUE when main goes on to add_map_to_group *)
FilesPresent(custom, g, s) ==
  IF custom THEN g.exists /\ s.exists ELSE g.exists

-----------------------------------------------------------------------------
(* The files and arguments the tool is run on *)

MaxEntries == 2

T1 == <<TAB>>
T2 == <<TAB, TAB>>
T3 == <<TAB, TAB, TAB>>

Ln(indent, body) == indent \o body \o <<NL>>

(* lines a maps block may hold *)
EntryA == Ln(T3, Quoted(<<"de_a">>) \o <<TAB, TAB, QUOTE, QUOTE>>)
EntryW == Ln(<<SP, SP>>, Quoted(<<"workshop", SLASH, "1", SLASH, "de_a">>)
                           \o <<SP, QUOTE, QUOTE>>)
BlankTab == Ln(T1, <<>>)
Comment == Ln(T1, <<"//", SP, "c">>)
Blank == Ln(<<>>, <<>>)

EntryLines == {EntryA, EntryW, BlankTab, Comment, Blank}

EntrySeqs == UNION {[1..n -> EntryLines] : n \in 0..MaxEntries}

HeaderStyles == {"allman", "kr"}
MapsVariants == {"allman", "kr", "oneline", "nobrace", "nomaps", "unclosed"}

(* a block header: the brace on the next line (allman) or on the same line *)
Header(indent, name, style) ==
  IF style = "allman"
    THEN <<Ln(indent, Quoted(<<name>>)), Ln(indent, <<LBRACE>>)>>
    ELSE <<Ln(indent, Quoted(<<name>>) \o <<SP, LBRACE>>)>>

Close(indent) == <<Ln(indent, <<RBRACE>>)>>

MapsBlock(variant, entries) ==
  CASE variant = "allman" -> Header(T2, "maps", "allman") \o entries \o Close(T2)
    [] variant = "kr" -> Header(T2, "maps", "kr") \o entries \o Close(T2)
    [] variant = "oneline" ->
         <<Ln(T2, Quoted(<<"maps">>) \o <<SP, LBRACE, SP, RBRACE>>)>>
    [] variant = "nobrace" -> <<Ln(T2, Quoted(<<"maps">>))>>
    [] variant = "nomaps" ->
         <<Ln(T2, Quoted(<<"name">>) \o <<TAB, TAB>> \o Quoted(<<"x">>))>>
    [] variant = "unclosed" -> Header(T2, "maps", "allman") \o entries

Group(name, style, variant, entries) ==
  Header(T1, name, style) \o MapsBlock(variant, entries) \o Close(T1)

OtherGroup == Group("mg_b", "allman", "allman", <<EntryW>>)

Section(mgStyle) ==
  IF mgStyle = "none" THEN <<>> ELSE Header(<<>>, "mapgroups", mgStyle)

Doc(mgStyle, style, variant, entries, other, closed, post) ==
  Section(mgStyle)
    \o (IF other = "before" THEN OtherGroup ELSE <<>>)
    \o Group("mg_a", style, variant, entries)
    \o (IF other = "after" THEN OtherGroup ELSE <<>>)
    \o (IF closed THEN Close(<<>>) ELSE <<>>)
    \o (IF post THEN Group("mg_a", "allman", "allman", <<EntryA>>) ELSE <<>>)

(* documents that vary the structure around one entry *)
StructureDocs ==
  {Doc(mg, st, v, <<EntryA>>, o, c, p) :
     mg \in {"allman", "kr", "none"}, st \in HeaderStyles, v \in MapsVariants,
     o \in {"none", "before", "after"}, c \in BOOLEAN, p \in BOOLEAN}

(* well-formed documents that vary the content of the maps block *)
EntryDocs ==
  {Doc("allman", "allman", "allman", e, "after", TRUE, FALSE) : e \in EntrySeqs}

PlainDoc == Doc("allman", "allman", "allman", <<EntryA>>, "after", TRUE, FALSE)

GroupNames == {"mg_a", "mg_b"}
MapNames == {"de_a", "mg_a"}
WorkshopIds == {"", "1"}
Positions == {"start", "end"}

SubsFiles ==
  {Absent, File(<<>>), File(<<"1", NL>>), File(<<"1">>), File(<<"2", NL>>),
   File(<<"2">>), File(<<"2", NL, SP, "1", SP, NL, NL>>)}

Args ==
  [group_name : GroupNames, map_name : MapNames, workshop_id : WorkshopIds,
   dry_run : BOOLEAN, position : Positions, custom : BOOLEAN]

NoOutcome == [map |-> "none", sub |-> "none", code |-> -1, err |-> ""]

Files(g, b, s) == [gm |-> g, bak |-> b, sub |-> s]

Start(g, s, a) ==
  /\ gm = g
  /\ bak = Absent
  /\ sub = s
  /\ args = a
  /\ pc = "main"
  /\ lines = <<>>
  /\ span = Fail("")
  /\ out = NoOutcome
  /\ log = <<>>
  /\ run = 1
  /\ snap0 = Files(g, Absent, s)
  /\ snap1 = [files |-> Files(g, Absent, s), out |-> NoOutcome, dry_run |-> a.dry_run]

(* The runs start from every structure variant and every maps-block content  *)
(* with the global file set and no list file, and from a missing, an empty   *)
(* and a plain primary file with every list file and every argument.         *)
Init ==
  \/ \E d \in StructureDocs \cup EntryDocs, a \in Args :
       /\ ~a.custom
       /\ Start(File(join(d)), Absent, a)
  \/ \E g \in {Absent, File(<<>>), File(join(PlainDoc))}, s \in SubsFiles,
        a \in Args :
       Start(g, s, a)

-----------------------------------------------------------------------------
(* main and add_map_to_group, one action per step *)

Raise(e) ==
  /\ out' = [out EXCEPT !.code = 2, !.err = e]
  /\ pc' = "done"

(* main: the existence checks before add_map_to_group *)
Main ==
  /\ pc = "main"
  /\ IF FilesPresent(args.custom, gm, sub)
       THEN pc' = "read" /\ out' = out
       ELSE pc' = "done" /\ out' = [out EXCEPT !.code = 1]
  /\ UNCHANGED <<gm, bak, sub, args, lines, span, log, run, snap0, snap1>>

(* lines = read_lines(gamemodes_path) *)
ReadLines ==
  /\ pc = "read"
  /\ IF gm.exists
       THEN /\ lines' = read_lines(gm)
            /\ log' = Append(log, "read")
            /\ pc' = "locate" /\ out' = out
       ELSE /\ Raise(ErrMissingFile)
            /\ UNCHANGED <<lines, log>>
  /\ UNCHANGED <<gm, bak, sub, args, span, run, snap0, snap1>>

(* find_group_and_maps_block(lines, group_name) *)
Locate ==
  /\ pc = "locate"
  /\ LET r == find_group_and_maps_block(lines, args.group_name)
     IN /\ span' = r
        /\ IF r.ok THEN pc' = "check" /\ out' = out ELSE Raise(r.err)
  /\ log' = Append(log, "locate")
  /\ UNCHANGED <<gm, bak, sub, args, lines, run, snap0, snap1>>

MapKey == format_map_key(args.map_name, args.workshop_id)

(* the branch with the backup left out *)
StepAfterCheckNoBackup(duplicate) ==
  IF duplicate THEN "subscribe" ELSE "insert"

(* the branch after the duplicate check: skip, or backup then insert *)
StepAfterCheck(duplicate) ==
  IF duplicate THEN "subscribe" ELSE "backup"

(* if map_key in maps_list *)
CheckDuplicate ==
  /\ pc = "check"
  /\ LET duplicate ==
           InList(MapKey,
                  current_maps_in_block(lines, span.maps_start, span.maps_end))
     IN /\ pc' = StepAfterCheck(duplicate)
        /\ out' = IF duplicate THEN [out EXCEPT !.map = "skip"] ELSE out
  /\ log' = Append(log, "check")
  /\ UNCHANGED <<gm, bak, sub, args, lines, span, run, snap0, snap1>>

(* if not dry_run: backup = backup_file(gamemodes_path) *)
Backup ==
  /\ pc = "backup"
  /\ IF ~args.dry_run
       THEN bak' = backup_file(gm) /\ log' = Append(log, "backup")
       ELSE UNCHANGED <<bak, log>>
  /\ pc' = "insert"
  /\ UNCHANGED <<gm, sub, args, lines, span, out, run, snap0, snap1>>

(* insert_map(lines, maps_start, maps_end, indent, map_key, position) *)
InsertMap ==
  /\ pc = "insert"
  /\ lines' = insert_map(lines, span.maps_start, span.maps_end, span.indent,
                         MapKey, args.position)
  /\ log' = Append(log, "insert")
  /\ pc' = "write"
  /\ UNCHANGED <<gm, bak, sub, args, span, out, run, snap0, snap1>>

(* if not dry_run: write_lines(gamemodes_path, lines) *)
WriteLines ==
  /\ pc = "write"
  /\ IF ~args.dry_run
       THEN gm' = write_lines(lines) /\ log' = Append(log, "write")
       ELSE UNCHANGED <<gm, log>>
  /\ out' = [out EXCEPT !.map = "added"]
  /\ pc' = "subscribe"
  /\ UNCHANGED <<bak, sub, args, lines, span, run, snap0, snap1>>

(* if workshop_id: added = add_workshop_id(...); then main returns 0 *)
Subscribe ==
  /\ pc = "subscribe"
  /\ IF args.workshop_id # ""
       THEN LET r == add_workshop_id(sub, args.workshop_id, args.dry_run)
            IN /\ sub' = r.file
               /\ out' = [out EXCEPT !.sub = IF r.added THEN "added" ELSE "skip",
                                     !.code = 0]
               /\ log' = IF r.file # sub THEN Append(log, "append") ELSE log
       ELSE /\ out' = [out EXCEPT !.code = 0]
            /\ UNCHANGED <<sub, log>>
  /\ pc' = "done"
  /\ UNCHANGED <<gm, bak, args, lines, span, run, snap0, snap1>>

(* the tool is run again on the files the first run left, with the same      *)
(* arguments and without --dry-run                                           *)
Rerun ==
  /\ pc = "done"
  /\ run = 1
  /\ run' = 2
  /\ snap1' = [files |-> Files(gm, bak, sub), out |-> out, dry_run |-> args.dry_run]
  /\ snap0' = Files(gm, bak, sub)
  /\ args' = [args EXCEPT !.dry_run = FALSE]
  /\ pc' = "main"
  /\ lines' = <<>>
  /\ span' = Fail("")
  /\ out' = NoOutcome
  /\ log' = <<>>
  /\ UNCHANGED <<gm, bak, sub>>

Next ==
  \/ Main
  \/ ReadLines
  \/ Locate
  \/ CheckDuplicate
  \/ Backup
  \/ InsertMap
  \/ WriteLines
  \/ Subscribe
  \/ Rerun

Spec == Init /\ [][Next]_vars

-----------------------------------------------------------------------------
(* Vocabulary of the properties *)

(* the Document as read at the start of the current run *)
Orig == splitlines(snap0.gm.content)

Disk == Files(gm, bak, sub)

Happened(e) == InList(e, log)

Times(e) == Cardinality({n \in 1..Len(log) : log[n] = e})

Located == Happened("locate") /\ span.ok

(* the canonical key of the arguments *)
CanonicalKey ==
  IF args.workshop_id = "" THEN <<args.map_name>>
  ELSE <<"workshop", SLASH, args.workshop_id, SLASH, args.map_name>>

(* the line is an entry whose first quoted substring is key: its trimmed     *)
(* content opens with a quote and the text up to the next quote is key       *)
CarriesKey(l, key) ==
  LET st == strip(l)
  IN /\ Len(st) >= Len(key) + 2
     /\ st[1] = QUOTE
     /\ SubSeq(st, 2, Len(key) + 1) = key
     /\ st[Len(key) + 2] = QUOTE

KeyLines(ls, key) == {n \in 0..(Len(ls) - 1) : CarriesKey(At(ls, n), key)}

EntryLineCount(ls) ==
  Cardinality({n \in 0..(Len(ls) - 1) : startswith(strip(At(ls, n)), <<QUOTE>>)})

(* the list file's tokens: its non-blank trimmed lines *)
OwnLines(f) ==
  IF ~f.exists THEN {}
  ELSE {strip(At(splitlines(f.content), n)) :
          n \in 0..(Len(splitlines(f.content)) - 1)} \ {<<>>}

(* brace depth after line n, counted from line a on *)
DepthFrom(ls, a, n) ==
  count(join(SubSeq(ls, a + 1, n + 1)), LBRACE)
    - count(join(SubSeq(ls, a + 1, n + 1)), RBRACE)

(* the line that closes the block whose opening brace is on line a: the      *)
(* first line on which the depth counted from line a is back to 0; Len(ls)   *)
(* when the block is never closed                                            *)
ClosingLine(ls, a) ==
  LET closes == {n \in a..(Len(ls) - 1) : DepthFrom(ls, a, n) <= 0}
  IN IF closes = {} THEN Len(ls)
     ELSE CHOOSE n \in closes : \A k \in closes : n <= k

BraceBalanced(ls) ==
  /\ \A n \in 0..(Len(ls) - 1) : DepthFrom(ls, 0, n) >= 0
  /\ Len(ls) > 0 => DepthFrom(ls, 0, Len(ls) - 1) = 0

IsHeader(l, name) == startswith(strip(l), Quoted(<<name>>))

(* the lines that start with the quoted name *)
HeaderLines(ls, name) == {n \in 0..(Len(ls) - 1) : IsHeader(At(ls, n), name)}

BraceLinesFrom(ls, a) ==
  {n \in a..(Len(ls) - 1) : contains(At(ls, n), LBRACE)}

Min(S) == CHOOSE n \in S : \A k \in S : n <= k

(* the Document without its line p *)
Without(ls, p) == SubSeq(ls, 1, p) \o SubSeq(ls, p + 2, Len(ls))

-----------------------------------------------------------------------------
C2_InsertEffect ==
  (pc = "write" /\ BraceBalanced(Orig)) =>
    LET open == span.maps_start - 1
        close == ClosingLine(Orig, open)
        p == IF args.position = "start" THEN open + 1 ELSE close
    IN /\ Len(lines) = Len(Orig) + 1
       /\ p < Len(lines)
       /\ Without(lines, p) = Orig
       /\ CarriesKey(At(lines, p), CanonicalKey)
       /\ args.position = "end" => At(lines, p + 1) = At(Orig, close)

(* C2 on the documents whose maps block does not close on the line that      *)
(* opens it                                                                  *)
C2_InsertEffectMultiLine ==
  (pc = "write" /\ BraceBalanced(Orig)
     /\ ClosingLine(Orig, span.maps_start - 1) > span.maps_start - 1) =>
    C2_InsertEffect

(* C3: duplicate detection is key-exact.  A run that gets past the locator   *)
(* skips the insertion exactly when a line of the located block carries the  *)
(* canonical key as its first quoted substring; otherwise the file written   *)
(* has exactly one more entry line, and it carries the canonical key.        *)
C3_KeyExact ==
  (pc = "done" /\ out.code = 0) =>
    /\ out.map \in {"skip", "added"}
    /\ out.map = "skip" <=>
         \E n \in KeyLines(Orig, CanonicalKey) :
           span.maps_start <= n /\ n < span.maps_end
    /\ (out.map = "added" /\ ~args.dry_run) =>
         /\ Cardinality(KeyLines(splitlines(gm.content), CanonicalKey))
              = Cardinality(KeyLines(Orig, CanonicalKey)) + 1
         /\ EntryLineCount(splitlines(gm.content)) = EntryLineCount(Orig) + 1

C3_Witness ==
  /\ pc = "done" /\ out.map = "added" /\ ~args.dry_run
  /\ args.workshop_id = "" /\ args.map_name = "de_a"
  /\ \E n \in KeyLines(Orig, <<"workshop", SLASH, "1", SLASH, "de_a">>) :
       span.maps_start <= n /\ n < span.maps_end

(* C4: after a run without --dry-run that was given a Workshop ID, the ID is *)
(* a line of its own in the list file, whatever the file held before.        *)
C4_TokenOwnLine ==
  (pc = "done" /\ out.code = 0 /\ args.workshop_id # "" /\ ~args.dry_run) =>
    <<args.workshop_id>> \in OwnLines(sub)

(* C5: backup before write, no partial write.  The primary file is written   *)
(* at most once in a run, only after read, locate, duplicate check, backup   *)
(* and insert, and then the backup holds the original content; the primary   *)
(* file changes by that write only; a run that fails leaves every file as it *)
(* was.                                                                      *)
C5_BackupBeforeWrite ==
  /\ Times("write") <= 1
  /\ Happened("write") =>
       /\ log = <<"read", "locate", "check", "backup", "insert", "write">>
            \/ log = <<"read", "locate", "check", "backup", "insert", "write",
                       "append">>
       /\ bak = File(snap0.gm.content)
  /\ gm # snap0.gm => Happened("write")
  /\ out.code \in {1, 2} => Disk = snap0

C5_Witness ==
  /\ Happened("write") /\ gm # snap0.gm /\ bak = File(snap0.gm.content)
  /\ pc = "done"

(* C6: dry-run purity.  A run with --dry-run leaves every file as it was,    *)
(* and the run without --dry-run on the same files reports the same outcome  *)
(* for the map and for the subscription.                                     *)
C6_DryRunPure ==
  /\ args.dry_run => Disk = snap0
  /\ (run = 2 /\ snap1.dry_run) => snap0 = snap1.files
  /\ (run = 2 /\ snap1.dry_run /\ pc = "done") => out = snap1.out

C6_Witness ==
  /\ run = 2 /\ snap1.dry_run /\ pc = "done"
  /\ out.map = "added" /\ out.sub = "added"
  /\ Disk # snap0

(* C7: in a brace-balanced Document with a "mapgroups" section that has an   *)
(* opening brace, the locator fails with Group not found exactly when no     *)
(* line between that opening brace and its matching closing brace starts     *)
(* with the quoted group name.                                               *)
C7_GroupNotFoundExact ==
  (Happened("locate") /\ BraceBalanced(Orig)
     /\ HeaderLines(Orig, "mapgroups") # {}
     /\ BraceLinesFrom(Orig, Min(HeaderLines(Orig, "mapgroups"))) # {}) =>
    LET open == Min(BraceLinesFrom(Orig, Min(HeaderLines(Orig, "mapgroups"))))
        close == ClosingLine(Orig, open)
    IN (~span.ok /\ span.err = ErrNoGroup) <=>
         ~\E n \in HeaderLines(Orig, args.group_name) : open < n /\ n < close

(* C8 as stated: a missing or an empty primary file ends with exit code 1    *)
(* before the file is read or the locator runs.                              *)
C8_EmptyOrMissingIsPrecondition ==
  (pc = "done" /\ (~snap0.gm.exists \/ snap0.gm.content = <<>>)) =>
    out.code = 1 /\ log = <<>>

(* C8 amended: a missing primary file ends with exit code 1 before the file  *)
(* is read or the locator runs; an empty primary file that passes main's     *)
(* existence checks is read, reaches the locator and ends with exit code 2,  *)
(* no "mapgroups" section found; either way no file is touched.              *)
C8_MissingIsPrecondition ==
  /\ (pc = "done" /\ ~snap0.gm.exists) => out.code = 1 /\ log = <<>>
  /\ (pc = "done" /\ snap0.gm = File(<<>>)
        /\ (args.custom => snap0.sub.exists)) =>
       /\ out.code = 2 /\ out.err = ErrNoSection
       /\ log = <<"read", "locate">>
  /\ (~snap0.gm.exists \/ snap0.gm.content = <<>>) => Disk = snap0

C8_Witness ==
  /\ pc = "done" /\ snap0.gm = File(<<>>) /\ out.code = 2
  /\ Happened("locate")

(* C9: no silent mis-location.  Whenever the locator returns a span, the     *)
(* line that opens the maps block and the line that closes it lie inside the *)
(* requested group's block: after the group header and not after the line    *)
(* on which the group's brace depth is back to 0.                            *)
C9_SpanInsideGroup ==
  Located =>
    LET groupOpen == Min(BraceLinesFrom(Orig, span.group_start))
        groupClose == ClosingLine(Orig, groupOpen)
    IN /\ span.group_start < span.maps_start - 1
       /\ span.maps_start - 1 <= groupClose
       /\ span.maps_end <= groupClose

(* C10: the indentation the locator returns is the leading whitespace of the *)
(* first line inside the maps block whose trimmed content starts with a      *)
(* quote, four tabs when there is none, and holds no line terminator.        *)
C10_IndentFromFirstEntry ==
  Located =>
    LET entries == {n \in span.maps_start..(span.maps_end - 1) :
                      startswith(strip(At(Orig, n)), <<QUOTE>>)}
    IN /\ span.indent = IF entries = {} THEN FourTabs
                        ELSE LeadingWhitespace(At(Orig, Min(entries)))
       /\ ~contains(span.indent, NL)

====
